---- MODULE Spec2Model ----
(***************************************************************************)
(* Evidence registry (forens_core/evidence.py) and the session-mediation   *)
(* layer of the web application (webapp/app.py).                            *)
(*                                                                         *)
(* Identifiers and file names are sequences of one-character strings, so   *)
(* that formatting and sanitising are computed and not assumed.            *)
(***************************************************************************)
EXTENDS Integers, Sequences, FiniteSets, TLC

\* ------------------------------------------------------------------ bounds
\* number of add_evidence calls explored
MaxId == 3
\* number of threads calling add_evidence concurrently
NumThreads == 2
\* number of handler objects constructed by upload
MaxOpens == 2

\* ------------------------------------------------------------ input domains
Paths == {"/tmp/img1.raw", "/tmp/img2.raw"}

\* Python's None, as a string, as a request parameter and as a dict value
None == "None"

NoArg == <<"None">>

NoObject == [none |-> TRUE]

\* ------------------------------------------------------------------- state
VARIABLES
    evidence_db,    \* evidence.py _evidence_db : id -> [path, open]
    next_id,        \* evidence.py _next_id
    ret,            \* the last call of the registry, what it returned and,
                    \* for close_evidence, the record it found
    issued,         \* the (id, path) pairs add_evidence has returned, in order
    pc,             \* position of each thread inside add_evidence
    t_path,         \* add_evidence local: the argument path
    t_eid,          \* add_evidence local: eid
    t_tmp,          \* add_evidence: the value loaded by `_next_id += 1`
    image_handlers, \* app.py create_app.image_handlers : token -> handler object
    next_obj,       \* identity of the next handler object constructed
    resp,           \* the last request served and its response
    open_log,       \* the uploads that stored a handler, in order
    u_pc,           \* position of each thread inside upload
    u_loc,          \* upload locals: filename, saved_path, handler, token
    pure            \* a function of the program, its argument and its result

vars == <<evidence_db, next_id, ret, issued, pc, t_path, t_eid, t_tmp,
          image_handlers, next_obj, resp, open_log, u_pc, u_loc, pure>>

regVars == <<evidence_db, next_id, ret, issued>>
threadVars == <<pc, t_path, t_eid, t_tmp>>
webVars == <<image_handlers, next_obj, resp, open_log>>
uploadVars == <<u_pc, u_loc>>
pureVars == <<pure>>

Threads == 1..NumThreads

\* --------------------------------------------------- f"E{_next_id:03d}"
Digits == <<"0", "1", "2", "3", "4", "5", "6", "7", "8", "9">>

DigitChar(d) == Digits[d + 1]

RECURSIVE ToDigits(_)
ToDigits(n) ==
    IF n < 10 THEN <<DigitChar(n)>>
    ELSE Append(ToDigits(n \div 10), DigitChar(n % 10))

RECURSIVE ZeroPad(_, _)
ZeroPad(s, w) == IF Len(s) >= w THEN s ELSE ZeroPad(<<"0">> \o s, w)

\* the format without the zero padding: f"E{_next_id}"
FormatIdNoPad(n) == <<"E">> \o ToDigits(n)

FormatId(n) == <<"E">> \o ZeroPad(ToDigits(n), 3)

\* values of _next_id at which the number of digits changes, and far ones
FormatInputs == {1, 2, 9, 10, 11, 99, 100, 101, 999, 1000, 1001, 12345}

\* f"E{n:03d}" on its own
ApplyFormat ==
    /\ pure.fn = "format"
    /\ ~pure.done
    /\ pure' = [pure EXCEPT !.done = TRUE, !.out = FormatId(pure.arg)]
    /\ UNCHANGED regVars
    /\ UNCHANGED threadVars
    /\ UNCHANGED webVars
    /\ UNCHANGED uploadVars

\* ids a caller may pass to resolve_evidence / close_evidence
QueryIds == {FormatId(n) : n \in 1..(MaxId + 1)} \cup {<<"E", "0">>}

\* dict helpers
DictGet(d, k) == IF k \in DOMAIN d THEN d[k] ELSE NoObject

DictSet(d, k, v) == [x \in DOMAIN d \cup {k} |-> IF x = k THEN v ELSE d[x]]

EmptyDict == [x \in {} |-> None]

\* ------------------------------------------------ evidence.py, sequential
\* add_evidence without line 9 (the counter is not advanced)
AddEvidenceNoIncrement(path) ==
    LET eid == FormatId(next_id) IN
    /\ next_id <= MaxId
    /\ evidence_db' = DictSet(evidence_db, eid, [path |-> path, open |-> TRUE])
    /\ next_id' = next_id
    /\ ret' = [op |-> "add", arg |-> path, val |-> eid]
    /\ issued' = Append(issued, [id |-> eid, path |-> path])
    /\ UNCHANGED threadVars
    /\ UNCHANGED webVars
    /\ UNCHANGED uploadVars
    /\ UNCHANGED pureVars

\* add_evidence(path): lines 5-10, executed without interleaving
AddEvidence(path) ==
    LET eid == FormatId(next_id) IN
    /\ next_id <= MaxId
    /\ evidence_db' = DictSet(evidence_db, eid, [path |-> path, open |-> TRUE])
    /\ next_id' = next_id + 1
    /\ ret' = [op |-> "add", arg |-> path, val |-> eid]
    /\ issued' = Append(issued, [id |-> eid, path |-> path])
    /\ UNCHANGED threadVars
    /\ UNCHANGED webVars
    /\ UNCHANGED uploadVars
    /\ UNCHANGED pureVars

\* resolve_evidence(eid): lines 12-13
ResolveEvidence(eid) ==
    /\ ret' = [op |-> "resolve", arg |-> eid, val |-> DictGet(evidence_db, eid)]
    /\ UNCHANGED <<evidence_db, next_id, issued>>
    /\ UNCHANGED threadVars
    /\ UNCHANGED webVars
    /\ UNCHANGED uploadVars
    /\ UNCHANGED pureVars

\* close_evidence without line 17 (the flag is not cleared)
CloseEvidenceKeepOpen(eid) ==
    /\ IF eid \in DOMAIN evidence_db
       THEN /\ evidence_db' = evidence_db
            /\ ret' = [op |-> "close", arg |-> eid, val |-> TRUE,
                       found |-> evidence_db[eid]]
       ELSE /\ evidence_db' = evidence_db
            /\ ret' = [op |-> "close", arg |-> eid, val |-> FALSE,
                       found |-> NoObject]
    /\ UNCHANGED <<next_id, issued>>
    /\ UNCHANGED threadVars
    /\ UNCHANGED webVars
    /\ UNCHANGED uploadVars
    /\ UNCHANGED pureVars

\* close_evidence returning whether the flag changed
CloseEvidenceReportChange(eid) ==
    /\ IF eid \in DOMAIN evidence_db
       THEN /\ evidence_db' = [evidence_db EXCEPT ![eid].open = FALSE]
            /\ ret' = [op |-> "close", arg |-> eid, val |-> evidence_db[eid].open,
                       found |-> evidence_db[eid]]
       ELSE /\ evidence_db' = evidence_db
            /\ ret' = [op |-> "close", arg |-> eid, val |-> FALSE,
                       found |-> NoObject]
    /\ UNCHANGED <<next_id, issued>>
    /\ UNCHANGED threadVars
    /\ UNCHANGED webVars
    /\ UNCHANGED uploadVars
    /\ UNCHANGED pureVars

\* close_evidence that also ends the sessions of the application
CloseEvidenceEndSessions(eid) ==
    /\ IF eid \in DOMAIN evidence_db
       THEN /\ evidence_db' = [evidence_db EXCEPT ![eid].open = FALSE]
            /\ ret' = [op |-> "close", arg |-> eid, val |-> TRUE,
                       found |-> evidence_db[eid]]
            /\ image_handlers' = EmptyDict
       ELSE /\ evidence_db' = evidence_db
            /\ ret' = [op |-> "close", arg |-> eid, val |-> FALSE,
                       found |-> NoObject]
            /\ image_handlers' = image_handlers
    /\ UNCHANGED <<next_id, issued>>
    /\ UNCHANGED threadVars
    /\ UNCHANGED <<next_obj, resp, open_log>>
    /\ UNCHANGED uploadVars
    /\ UNCHANGED pureVars

\* close_evidence(eid): lines 15-19
CloseEvidence(eid) ==
    /\ IF eid \in DOMAIN evidence_db
       THEN /\ evidence_db' = [evidence_db EXCEPT ![eid].open = FALSE]
            /\ ret' = [op |-> "close", arg |-> eid, val |-> TRUE,
                       found |-> evidence_db[eid]]
       ELSE /\ evidence_db' = evidence_db
            /\ ret' = [op |-> "close", arg |-> eid, val |-> FALSE,
                       found |-> NoObject]
    /\ UNCHANGED <<next_id, issued>>
    /\ UNCHANGED threadVars
    /\ UNCHANGED webVars
    /\ UNCHANGED uploadVars
    /\ UNCHANGED pureVars


\* ------------------------------------- evidence.py, add_evidence by threads
\* Each statement of add_evidence is one step of the calling thread; the
\* augmented assignment of line 9 is a load followed by a store.
Started == Len(issued) + Cardinality({t \in Threads : pc[t] # "idle"})

\* call add_evidence(path)
T_Call(t, path) ==
    /\ pc[t] = "idle"
    /\ Started < MaxId
    /\ pc' = [pc EXCEPT ![t] = "l7"]
    /\ t_path' = [t_path EXCEPT ![t] = path]
    /\ UNCHANGED <<t_eid, t_tmp>>
    /\ UNCHANGED regVars
    /\ UNCHANGED webVars
    /\ UNCHANGED uploadVars
    /\ UNCHANGED pureVars

\* line 7: eid = f"E{_next_id:03d}"
T_Format(t) ==
    /\ pc[t] = "l7"
    /\ t_eid' = [t_eid EXCEPT ![t] = FormatId(next_id)]
    /\ pc' = [pc EXCEPT ![t] = "l8"]
    /\ UNCHANGED <<t_path, t_tmp>>
    /\ UNCHANGED regVars
    /\ UNCHANGED webVars
    /\ UNCHANGED uploadVars
    /\ UNCHANGED pureVars

\* line 8: _evidence_db[eid] = {"path": path, "open": True}
T_Store(t) ==
    /\ pc[t] = "l8"
    /\ evidence_db' = DictSet(evidence_db, t_eid[t], [path |-> t_path[t], open |-> TRUE])
    /\ pc' = [pc EXCEPT ![t] = "l9_load"]
    /\ UNCHANGED <<next_id, ret, issued>>
    /\ UNCHANGED <<t_path, t_eid, t_tmp>>
    /\ UNCHANGED webVars
    /\ UNCHANGED uploadVars
    /\ UNCHANGED pureVars

\* line 9, first half: load _next_id
T_Load(t) ==
    /\ pc[t] = "l9_load"
    /\ t_tmp' = [t_tmp EXCEPT ![t] = next_id]
    /\ pc' = [pc EXCEPT ![t] = "l9_store"]
    /\ UNCHANGED <<t_path, t_eid>>
    /\ UNCHANGED regVars
    /\ UNCHANGED webVars
    /\ UNCHANGED uploadVars
    /\ UNCHANGED pureVars

\* line 9, second half: store _next_id = loaded value + 1
T_Increment(t) ==
    /\ pc[t] = "l9_store"
    /\ next_id' = t_tmp[t] + 1
    /\ pc' = [pc EXCEPT ![t] = "l10"]
    /\ UNCHANGED <<evidence_db, ret, issued>>
    /\ UNCHANGED <<t_path, t_eid, t_tmp>>
    /\ UNCHANGED webVars
    /\ UNCHANGED uploadVars
    /\ UNCHANGED pureVars

\* line 10: return eid
T_Return(t) ==
    /\ pc[t] = "l10"
    /\ ret' = [op |-> "add", arg |-> t_path[t], val |-> t_eid[t]]
    /\ issued' = Append(issued, [id |-> t_eid[t], path |-> t_path[t]])
    /\ pc' = [pc EXCEPT ![t] = "idle"]
    /\ UNCHANGED <<evidence_db, next_id>>
    /\ UNCHANGED <<t_path, t_eid, t_tmp>>
    /\ UNCHANGED webVars
    /\ UNCHANGED uploadVars
    /\ UNCHANGED pureVars

\* ============================================================ webapp/app.py
\* A file name is a sequence of atoms: one-character strings and, as its last
\* atom, an extension such as ".raw".
UPLOAD_FOLDER == <<"uploads">>

ALLOWED_EXTENSIONS ==
    {".e01", ".E01", ".s01", ".S01", ".l01", ".L01", ".raw", ".RAW", ".img",
     ".IMG", ".dd", ".DD", ".iso", ".ISO", ".ad1", ".AD1", ".001", ".ex01",
     ".dmg", ".sparse", ".sparseimage"}

ExtAtoms == ALLOWED_EXTENSIONS \cup {".txt"}

\* the file names a client uploads ("" is the empty selection)
FileNames ==
    { <<"a", ".raw">>, <<" ", "a", ".raw">>, <<"b", ".img">>, <<"a", ".txt">>, <<>> }

\* os.path.splitext(filename)[1]: the last extension, unless the name is
\* nothing but that extension
SplitExt(f) ==
    IF Len(f) >= 2 /\ f[Len(f)] \in ExtAtoms THEN f[Len(f)] ELSE ""

\* allowed_file(filename)
allowed_file(f) == SplitExt(f) \in ALLOWED_EXTENSIONS

RECURSIVE LStrip(_, _)
LStrip(s, cs) == IF s # <<>> /\ Head(s) \in cs THEN LStrip(Tail(s), cs) ELSE s

RECURSIVE RStrip(_, _)
RStrip(s, cs) ==
    IF s # <<>> /\ s[Len(s)] \in cs THEN RStrip(SubSeq(s, 1, Len(s) - 1), cs) ELSE s

Strip(s, cs) == RStrip(LStrip(s, cs), cs)

\* "_".join(s.split()) on a sequence without leading or trailing blanks
RECURSIVE JoinWords(_)
JoinWords(s) ==
    IF s = <<>> THEN <<>>
    ELSE IF Head(s) = " " THEN <<"_">> \o JoinWords(LStrip(s, {" "}))
    ELSE <<Head(s)>> \o JoinWords(Tail(s))

\* werkzeug secure_filename: path separators become blanks, blank-separated
\* words are joined by "_", leading and trailing "_" are stripped
secure_filename(f) ==
    LET blanks == [i \in 1..Len(f) |-> IF f[i] = "/" THEN " " ELSE f[i]]
    IN Strip(JoinWords(Strip(blanks, {" "})), {"_"})

\* os.path.join(folder, filename)
PathJoin(folder, f) == folder \o <<"/">> \o f

\* the whole path taken as its base name
BasenameWholePath(path) == path

\* os.path.basename(path): what follows the last "/"
RECURSIVE Basename(_)
Basename(path) ==
    IF path = <<>> \/ path[Len(path)] = "/" THEN <<>>
    ELSE Append(Basename(SubSeq(path, 1, Len(path) - 1)), path[Len(path)])

\* ------------------------------------------------------------- handlers
\* ImageHandler(saved_path) of managers.evidence_utils, when it returns
RealHandler(path, obj) == [kind |-> "real", image_path |-> path, obj |-> obj]

\* DemoImageHandler.__init__
DemoImageHandler(path, obj) == [kind |-> "demo", image_path |-> path, obj |-> obj]

DemoStamp == "2024-01-01 12:00:00 UTC"

\* DemoImageHandler.get_directory_contents
DemoGetDirectoryContents(start_offset, inode_number) ==
    << [name |-> "demo_file.txt", is_directory |-> FALSE, inode_number |-> 12345,
        size |-> "1.2 KB", accessed |-> DemoStamp, modified |-> DemoStamp,
        created |-> DemoStamp, changed |-> DemoStamp],
       [name |-> "demo_folder", is_directory |-> TRUE, inode_number |-> 12346,
        size |-> "0 B", accessed |-> DemoStamp, modified |-> DemoStamp,
        created |-> DemoStamp, changed |-> DemoStamp] >>

\* DemoImageHandler.get_file_content: (content, meta)
DemoGetFileContent(inode_number, offset) ==
    <<"This is a demo file content for testing purposes.", None>>

\* DemoImageHandler.carve_files_by_type
DemoCarveFilesByType(file_type) ==
    << [name |-> "demo_carved_file.txt", path |-> "/demo_carved_file.txt",
        size |-> "512 B", inode |-> 12347, type |-> "text", extension |-> "txt",
        description |-> "Text File", accessed |-> DemoStamp, modified |-> DemoStamp,
        created |-> DemoStamp, changed |-> DemoStamp] >>

\* DemoImageHandler.search_files
DemoSearchFiles(query) ==
    << [name |-> <<"demo_search_">> \o query \o <<".txt">>,
        path |-> <<"/demo_search_">> \o query \o <<".txt">>,
        size |-> "256 B", accessed |-> DemoStamp, modified |-> DemoStamp,
        created |-> DemoStamp, changed |-> DemoStamp, inode_item |-> "12348"] >>

\* The ImageHandler of managers.evidence_utils: its results are opaque, and
\* get_file_content yields (None, None) when the inode cannot be resolved.
RealGetDirectoryContents(start_offset, inode_number) == "REAL_ENTRIES"

RealGetFileContent(readable) ==
    IF readable THEN <<"REAL_CONTENT", "REAL_META">> ELSE <<None, None>>

RealCarveFilesByType(file_type) == "REAL_CARVED"

RealSearchFiles(query) == "REAL_RESULTS"

\* ------------------------------------------------------- requests, replies
\* A reply: what the handler returned (redirect, json, html, file) or the
\* exception it raised, the messages it flashed, and the capability methods
\* it called.
Reply(route, req, kind, code, body, flashes, calls) ==
    [route |-> route, req |-> req, kind |-> kind, code |-> code,
     body |-> body, flashes |-> flashes, calls |-> calls]

NoResponse == Reply("none", [token |-> NoArg], "none", 0, None, <<>>, <<>>)

Json(route, req, body, calls) == Reply(route, req, "json", 200, body, <<>>, calls)

Html(route, req, body, calls) == Reply(route, req, "html", 200, body, <<>>, calls)

\* send_file(...) of the content written to a temporary file
SendFile(route, req, body, calls) == Reply(route, req, "file", 200, body, <<>>, calls)

Redirect(route, req, target, flashes, calls) ==
    Reply(route, req, "redirect", 302, target, flashes, calls)

\* jsonify({'error': 'invalid token'}), 400
InvalidToken(route, req) ==
    Reply(route, req, "json", 400, [error |-> "invalid token"], <<>>, <<>>)

\* jsonify({'error': 'not found'}), 404
NotFound(route, req, calls) ==
    Reply(route, req, "json", 404, [error |-> "not found"], <<>>, calls)

\* an exception no handler catches
Raised(route, req, exc) == Reply(route, req, "raise", 500, exc, <<>>, <<>>)

\* int(x) of a request parameter: a decimal string, None, or anything else
DigitValue(c) == CHOOSE d \in 0..9 : Digits[d + 1] = c

IsDecimal(x) ==
    /\ x # NoArg
    /\ Len(x) >= 1
    /\ \A i \in 1..Len(x) : \E d \in 0..9 : Digits[d + 1] = x[i]

RECURSIVE DecimalValue(_)
DecimalValue(x) ==
    IF x = <<>> THEN 0
    ELSE 10 * DecimalValue(SubSeq(x, 1, Len(x) - 1)) + DigitValue(x[Len(x)])

ParseInt(x) ==
    IF x = NoArg THEN [ok |-> FALSE, exc |-> "TypeError"]
    ELSE IF IsDecimal(x) THEN [ok |-> TRUE, val |-> DecimalValue(x)]
    ELSE [ok |-> FALSE, exc |-> "ValueError"]

\* request.args.get(name, default)
ArgsGet(x, default) == IF x = NoArg THEN default ELSE x

\* raw values of the inode and start_offset parameters (None: absent)
RawInodes == {NoArg, <<"7">>, <<"x">>, <<"1", "2", "3", "4", "5">>}

RawOffsets == {NoArg, <<"0">>, <<"x">>}

\* tokens a client may present (None: absent)
Tokens == {NoArg, <<"a", ".raw">>, <<"b", ".img">>}

FileTypes == {NoArg, <<"j", "p", "g">>}

Queries == {NoArg, <<"k">>}

DemoWarning == "Forensic libraries not installed. Running in demo mode."

\* --------------------------------------------------------------- upload
\* the try block without the flash of line 136
UploadTryNoWarning(ctor, saved_path, obj) ==
    LET token == Basename(saved_path) IN
    CASE ctor = "ok" ->
           [handlers |-> DictSet(image_handlers, token, RealHandler(saved_path, obj)),
            flashes |-> <<>>, target |-> <<"browse", token>>, token |-> token]
      [] ctor = "ImportError" ->
           [handlers |-> DictSet(image_handlers, token, DemoImageHandler(saved_path, obj)),
            flashes |-> <<>>, target |-> <<"browse", token>>, token |-> token]
      [] OTHER ->
           [handlers |-> image_handlers,
            flashes |-> <<"Error processing image">>, target |-> <<"index">>,
            token |-> NoArg]

\* the try block with every exception handled as ImportError is
UploadTryCatchAll(ctor, saved_path, obj) ==
    LET token == Basename(saved_path) IN
    CASE ctor = "ok" ->
           [handlers |-> DictSet(image_handlers, token, RealHandler(saved_path, obj)),
            flashes |-> <<>>, target |-> <<"browse", token>>, token |-> token]
      [] OTHER ->
           [handlers |-> DictSet(image_handlers, token, DemoImageHandler(saved_path, obj)),
            flashes |-> <<DemoWarning>>, target |-> <<"browse", token>>,
            token |-> token]

\* lines 129-143: the try block on the saved file.  ctor is how the
\* constructor ImageHandler(saved_path) ends: "ok", "ImportError" or
\* "Exception".
UploadTry(ctor, saved_path, obj) ==
    LET token == Basename(saved_path) IN
    CASE ctor = "ok" ->
           [handlers |-> DictSet(image_handlers, token, RealHandler(saved_path, obj)),
            flashes |-> <<>>, target |-> <<"browse", token>>, token |-> token]
      [] ctor = "ImportError" ->
           [handlers |-> DictSet(image_handlers, token, DemoImageHandler(saved_path, obj)),
            flashes |-> <<DemoWarning>>, target |-> <<"browse", token>>,
            token |-> token]
      [] OTHER ->
           [handlers |-> image_handlers,
            flashes |-> <<"Error processing image">>, target |-> <<"index">>,
            token |-> NoArg]

Flashed(flashes, msg) == \E i \in 1..Len(flashes) : flashes[i] = msg

CtorOutcomes == {"ok", "ImportError", "Exception"}

\* upload(): lines 113-143
Upload(has_file, filename, ctor) ==
    LET req == [token |-> NoArg, has_file |-> has_file, filename |-> filename] IN
    /\ IF ~has_file
       THEN /\ resp' = Redirect("upload", req, <<"index">>, <<"No file part">>, <<>>)
            /\ UNCHANGED <<image_handlers, next_obj, open_log>>
       ELSE IF filename = <<>>
       THEN /\ resp' = Redirect("upload", req, <<"index">>, <<"No selected file">>, <<>>)
            /\ UNCHANGED <<image_handlers, next_obj, open_log>>
       ELSE IF ~allowed_file(filename)
       THEN /\ resp' = Redirect("upload", req, <<"index">>, <<"Unsupported file type">>, <<>>)
            /\ UNCHANGED <<image_handlers, next_obj, open_log>>
       ELSE LET saved_path == PathJoin(UPLOAD_FOLDER, secure_filename(filename))
                r == UploadTry(ctor, saved_path, next_obj)
            IN /\ r.token # NoArg => next_obj <= MaxOpens
               /\ image_handlers' = r.handlers
               /\ resp' = Redirect("upload", req, r.target, r.flashes, <<>>)
               /\ next_obj' = IF r.token = NoArg THEN next_obj ELSE next_obj + 1
               /\ open_log' = IF r.token = NoArg THEN open_log
                              ELSE Append(open_log,
                                     [token |-> r.token,
                                      obj |-> next_obj,
                                      kind |-> r.handlers[r.token].kind,
                                      warned |-> Flashed(r.flashes, DemoWarning)])
    /\ UNCHANGED regVars
    /\ UNCHANGED threadVars
    /\ UNCHANGED uploadVars
    /\ UNCHANGED pureVars

\* ------------------------------------- upload, one request per thread
\* Requests are served by concurrent threads; a thread runs upload() in the
\* steps below, and a store into image_handlers is one atomic step.

\* lines 114-123: the flash of the check that rejects the request, or None
UploadCheck(has_file, filename) ==
    IF ~has_file THEN "No file part"
    ELSE IF filename = <<>> THEN "No selected file"
    ELSE IF ~allowed_file(filename) THEN "Unsupported file type"
    ELSE None

\* uploads past their checks whose constructor will give a handler
Constructing ==
    {t \in Threads : u_pc[t] = "construct" /\ u_loc[t].ctor # "Exception"}

\* lines 114-127: the checks, and the file saved under UPLOAD_FOLDER
U_Call(t, has_file, filename, ctor) ==
    LET req == [token |-> NoArg, has_file |-> has_file, filename |-> filename]
        msg == UploadCheck(has_file, filename)
    IN /\ u_pc[t] = "idle"
       /\ IF msg # None
          THEN /\ resp' = Redirect("upload", req, <<"index">>, <<msg>>, <<>>)
               /\ UNCHANGED uploadVars
          ELSE /\ ctor # "Exception"
                    => next_obj + Cardinality(Constructing) <= MaxOpens
               /\ u_pc' = [u_pc EXCEPT ![t] = "construct"]
               /\ u_loc' = [u_loc EXCEPT ![t] =
                              [req |-> req,
                               saved_path |-> PathJoin(UPLOAD_FOLDER,
                                                       secure_filename(filename)),
                               ctor |-> ctor,
                               handler |-> NoObject,
                               flashes |-> <<>>]]
               /\ UNCHANGED resp
       /\ UNCHANGED <<image_handlers, next_obj, open_log>>
       /\ UNCHANGED regVars
       /\ UNCHANGED threadVars
       /\ UNCHANGED pureVars

\* lines 130 and 134-137, 141-142: the constructor returns a handler, or
\* raises ImportError and the demo handler is constructed, or raises another
\* exception
U_Construct(t) ==
    LET l == u_loc[t] IN
    /\ u_pc[t] = "construct"
    /\ CASE l.ctor = "ok" ->
              /\ u_loc' = [u_loc EXCEPT ![t].handler = RealHandler(l.saved_path, next_obj)]
              /\ u_pc' = [u_pc EXCEPT ![t] = "store"]
              /\ next_obj' = next_obj + 1
         [] l.ctor = "ImportError" ->
              /\ u_loc' = [u_loc EXCEPT
                             ![t].handler = DemoImageHandler(l.saved_path, next_obj),
                             ![t].flashes = <<DemoWarning>>]
              /\ u_pc' = [u_pc EXCEPT ![t] = "store"]
              /\ next_obj' = next_obj + 1
         [] OTHER ->
              /\ u_loc' = [u_loc EXCEPT ![t].flashes = <<"Error processing image">>]
              /\ u_pc' = [u_pc EXCEPT ![t] = "fail"]
              /\ UNCHANGED next_obj
    /\ UNCHANGED <<image_handlers, resp, open_log>>
    /\ UNCHANGED regVars
    /\ UNCHANGED threadVars
    /\ UNCHANGED pureVars

\* lines 131-132 and 138-139: token = basename, image_handlers[token] = handler
U_Store(t) ==
    LET l == u_loc[t]
        token == Basename(l.saved_path)
    IN /\ u_pc[t] = "store"
       /\ image_handlers' = DictSet(image_handlers, token, l.handler)
       /\ u_pc' = [u_pc EXCEPT ![t] = "return"]
       /\ UNCHANGED <<u_loc, next_obj, resp, open_log>>
       /\ UNCHANGED regVars
       /\ UNCHANGED threadVars
       /\ UNCHANGED pureVars

\* lines 133 and 140: redirect to browse with the token
U_Return(t) ==
    LET l == u_loc[t]
        token == Basename(l.saved_path)
    IN /\ u_pc[t] = "return"
       /\ resp' = Redirect("upload", l.req, <<"browse", token>>, l.flashes, <<>>)
       /\ open_log' = Append(open_log,
                             [token |-> token,
                              obj |-> l.handler.obj,
                              kind |-> l.handler.kind,
                              warned |-> Flashed(l.flashes, DemoWarning)])
       /\ u_pc' = [u_pc EXCEPT ![t] = "idle"]
       /\ u_loc' = [u_loc EXCEPT ![t] = NoObject]
       /\ UNCHANGED <<image_handlers, next_obj>>
       /\ UNCHANGED regVars
       /\ UNCHANGED threadVars
       /\ UNCHANGED pureVars

\* lines 141-143: redirect to the index page
U_Fail(t) ==
    LET l == u_loc[t] IN
    /\ u_pc[t] = "fail"
    /\ resp' = Redirect("upload", l.req, <<"index">>, l.flashes, <<>>)
    /\ u_pc' = [u_pc EXCEPT ![t] = "idle"]
    /\ u_loc' = [u_loc EXCEPT ![t] = NoObject]
    /\ UNCHANGED <<image_handlers, next_obj, open_log>>
    /\ UNCHANGED regVars
    /\ UNCHANGED threadVars
    /\ UNCHANGED pureVars

\* ------------------------------------------- view_file: text or hex
\* Content is a sequence of bytes (0..255); text is a sequence of code points.
\* number of bytes view_file shows in hex
HexLimit == 1000

Min(a, b) == IF a <= b THEN a ELSE b

IsContinuation(b) == b \in 128..191

\* length of the UTF-8 sequence a byte starts; 0 if it starts none
SequenceLength(b) ==
    IF b < 128 THEN 1
    ELSE IF b \in 194..223 THEN 2
    ELSE IF b \in 224..239 THEN 3
    ELSE IF b \in 240..244 THEN 4
    ELSE 0

\* the second byte of a sequence: no overlong form, no surrogate, no code
\* point above U+10FFFF
SecondByteOk(b1, b2) ==
    IF b1 = 224 THEN b2 \in 160..191
    ELSE IF b1 = 237 THEN b2 \in 128..159
    ELSE IF b1 = 240 THEN b2 \in 144..191
    ELSE IF b1 = 244 THEN b2 \in 128..143
    ELSE IsContinuation(b2)

\* the code point of the sequence of n bytes at position i
CodePointAt(bs, i, n) ==
    IF n = 1 THEN bs[i]
    ELSE IF n = 2 THEN (bs[i] - 192) * 64 + (bs[i + 1] - 128)
    ELSE IF n = 3 THEN (bs[i] - 224) * 4096 + (bs[i + 1] - 128) * 64 + (bs[i + 2] - 128)
    ELSE (bs[i] - 240) * 262144 + (bs[i + 1] - 128) * 4096
         + (bs[i + 2] - 128) * 64 + (bs[i + 3] - 128)

\* content.decode('utf-8') accepts the content when it is a chain of
\* well-formed sequences: the first byte starts one, every byte that is not a
\* continuation starts one that is complete, and what follows a sequence is
\* the end of the content or the start of the next sequence
SequenceOkAt(bs, i) ==
    LET n == SequenceLength(bs[i]) IN
    /\ n >= 1
    /\ i + n - 1 <= Len(bs)
    /\ n >= 2 => SecondByteOk(bs[i], bs[i + 1])
    /\ \A j \in (i + 2)..(i + n - 1) : IsContinuation(bs[j])
    /\ i + n <= Len(bs) => ~IsContinuation(bs[i + n])

WellFormedUtf8(bs) ==
    /\ bs # <<>> => ~IsContinuation(bs[1])
    /\ \A i \in 1..Len(bs) : IsContinuation(bs[i]) \/ SequenceOkAt(bs, i)

\* the code points of the sequences that start in bs[lo..hi], in order
RECURSIVE TextOf(_, _, _)
TextOf(bs, lo, hi) ==
    IF lo > hi THEN <<>>
    ELSE IF lo = hi
         THEN IF IsContinuation(bs[lo]) THEN <<>>
              ELSE <<CodePointAt(bs, lo, SequenceLength(bs[lo]))>>
    ELSE LET mid == (lo + hi) \div 2
         IN TextOf(bs, lo, mid) \o TextOf(bs, mid + 1, hi)

\* content.decode('utf-8'); ok is FALSE where Python raises UnicodeDecodeError
Utf8Decode(bs) ==
    IF WellFormedUtf8(bs) THEN [ok |-> TRUE, text |-> TextOf(bs, 1, Len(bs))]
    ELSE [ok |-> FALSE, text |-> <<>>]

HexDigits == <<"0", "1", "2", "3", "4", "5", "6", "7", "8", "9",
               "a", "b", "c", "d", "e", "f">>

\* bytes.hex()
Hex(bs) ==
    [i \in 1..(2 * Len(bs)) |->
        IF i % 2 = 1 THEN HexDigits[(bs[(i + 1) \div 2] \div 16) + 1]
        ELSE HexDigits[(bs[i \div 2] % 16) + 1]]

\* view_file lines 215-220 with the hex of the whole content
ViewContentHexAll(content) ==
    LET d == Utf8Decode(content) IN
    IF d.ok THEN [text_content |-> d.text, is_text |-> TRUE]
    ELSE [text_content |-> Hex(content), is_text |-> FALSE]

\* view_file lines 215-220: text_content and is_text
ViewContent(content) ==
    LET d == Utf8Decode(content) IN
    IF d.ok THEN [text_content |-> d.text, is_text |-> TRUE]
    ELSE [text_content |-> Hex(SubSeq(content, 1, Min(HexLimit, Len(content)))),
          is_text |-> FALSE]

\* contents: a run of "a" and then nothing, a valid sequence, or a broken one
Run(n) == [i \in 1..n |-> 97]

RunLengths == {0, 1, HexLimit - 2, HexLimit - 1, HexLimit, HexLimit + 1}

Tails ==
    { <<>>, <<195, 169>>, <<226, 130, 172>>, <<240, 159, 152, 128>>,
      <<255>>, <<128>>, <<195>>, <<192, 128>>, <<237, 160, 128>>, <<195, 169, 255>> }

ViewInputs == {Run(n) \o t : n \in RunLengths, t \in Tails}

\* the classification of view_file on its own
ApplyViewContent ==
    /\ pure.fn = "view"
    /\ ~pure.done
    /\ pure' = [pure EXCEPT !.done = TRUE, !.out = ViewContent(pure.arg)]
    /\ UNCHANGED regVars
    /\ UNCHANGED threadVars
    /\ UNCHANGED webVars
    /\ UNCHANGED uploadVars

\* ------------------------------------------------------------- queries
\* handler.get_directory_contents(start_offset, inode_num)
GetDirectoryContents(h, start_offset, inode_num) ==
    IF h.kind = "demo" THEN DemoGetDirectoryContents(start_offset, inode_num)
    ELSE RealGetDirectoryContents(start_offset, inode_num)

\* handler.get_file_content(inode, start_offset)
GetFileContent(h, inode, start_offset, readable) ==
    IF h.kind = "demo" THEN DemoGetFileContent(inode, start_offset)
    ELSE RealGetFileContent(readable)

\* handler.carve_files_by_type(file_type)
CarveFilesByType(h, file_type) ==
    IF h.kind = "demo" THEN DemoCarveFilesByType(file_type)
    ELSE RealCarveFilesByType(file_type)

\* handler.search_files(query)
SearchFiles(h, query) ==
    IF h.kind = "demo" THEN DemoSearchFiles(query) ELSE RealSearchFiles(query)

\* api_list(): lines 156-165
ApiListReply(token, start_offset_raw, inode_raw) ==
    LET start_offset == ParseInt(ArgsGet(start_offset_raw, <<"0">>))
        inode_num == IF inode_raw # NoArg THEN ParseInt(inode_raw)
                     ELSE [ok |-> TRUE, val |-> NoArg]
        handler == DictGet(image_handlers, token)
        req == [token |-> token, start_offset |-> start_offset_raw, inode |-> inode_raw]
    IN IF ~start_offset.ok THEN Raised("api_list", req, start_offset.exc)
       ELSE IF ~inode_num.ok THEN Raised("api_list", req, inode_num.exc)
       ELSE IF handler = NoObject THEN InvalidToken("api_list", req)
       ELSE Json("api_list", req,
                 [entries |-> GetDirectoryContents(handler, start_offset.val, inode_num.val)],
                 <<"get_directory_contents">>)

ApiList(token, start_offset_raw, inode_raw) ==
    /\ resp' = ApiListReply(token, start_offset_raw, inode_raw)
    /\ UNCHANGED <<image_handlers, next_obj, open_log>>
    /\ UNCHANGED regVars
    /\ UNCHANGED threadVars
    /\ UNCHANGED uploadVars
    /\ UNCHANGED pureVars

\* api_file(): lines 168-199.  readable: whether the real backend can
\* resolve the inode to content.
ApiFileReply(token, inode_raw, start_offset_raw, readable) ==
    LET inode == ParseInt(inode_raw)
        start_offset == ParseInt(ArgsGet(start_offset_raw, <<"0">>))
        handler == DictGet(image_handlers, token)
        req == [token |-> token, start_offset |-> start_offset_raw, inode |-> inode_raw,
                readable |-> readable]
    IN IF ~inode.ok THEN Raised("api_file", req, inode.exc)
       ELSE IF ~start_offset.ok THEN Raised("api_file", req, start_offset.exc)
       ELSE IF handler = NoObject THEN InvalidToken("api_file", req)
       ELSE LET content == GetFileContent(handler, inode.val, start_offset.val, readable)[1]
            IN IF content = None
               THEN NotFound("api_file", req, <<"get_file_content">>)
               ELSE SendFile("api_file", req, content, <<"get_file_content">>)

ApiFile(token, inode_raw, start_offset_raw, readable) ==
    /\ resp' = ApiFileReply(token, inode_raw, start_offset_raw, readable)
    /\ UNCHANGED <<image_handlers, next_obj, open_log>>
    /\ UNCHANGED regVars
    /\ UNCHANGED threadVars
    /\ UNCHANGED uploadVars
    /\ UNCHANGED pureVars

\* the real backend's answer is an input only when the real backend is asked
Readable(t) ==
    IF t \in DOMAIN image_handlers /\ image_handlers[t].kind = "real"
    THEN BOOLEAN ELSE {TRUE}

\* api_file() on a request, with the backend's answer if it is asked
ApiFileRequest(token, inode_raw, start_offset_raw) ==
    \E readable \in Readable(token) : ApiFile(token, inode_raw, start_offset_raw, readable)

\* api_carve(): lines 245-254
ApiCarveReply(token, type_raw) ==
    LET file_type == ArgsGet(type_raw, <<"a", "l", "l">>)
        handler == DictGet(image_handlers, token)
        req == [token |-> token, type |-> type_raw]
    IN IF handler = NoObject THEN InvalidToken("api_carve", req)
       ELSE Json("api_carve", req, [files |-> CarveFilesByType(handler, file_type)],
                 <<"carve_files_by_type">>)

ApiCarve(token, type_raw) ==
    /\ resp' = ApiCarveReply(token, type_raw)
    /\ UNCHANGED <<image_handlers, next_obj, open_log>>
    /\ UNCHANGED regVars
    /\ UNCHANGED threadVars
    /\ UNCHANGED uploadVars
    /\ UNCHANGED pureVars

\* search(): lines 280-287
SearchReply(token, q_raw) ==
    LET query == ArgsGet(q_raw, <<>>)
        handler == DictGet(image_handlers, token)
        req == [token |-> token, q |-> q_raw]
    IN IF handler = NoObject THEN InvalidToken("search", req)
       ELSE Html("search", req, [results |-> SearchFiles(handler, query), query |-> query],
                 <<"search_files">>)

\* search that forgets the token it served
SearchForgetToken(token, q_raw) ==
    /\ resp' = SearchReply(token, q_raw)
    /\ image_handlers' = [x \in DOMAIN image_handlers \ {token} |-> image_handlers[x]]
    /\ UNCHANGED <<next_obj, open_log>>
    /\ UNCHANGED regVars
    /\ UNCHANGED threadVars
    /\ UNCHANGED uploadVars
    /\ UNCHANGED pureVars

Search(token, q_raw) ==
    /\ resp' = SearchReply(token, q_raw)
    /\ UNCHANGED <<image_handlers, next_obj, open_log>>
    /\ UNCHANGED regVars
    /\ UNCHANGED threadVars
    /\ UNCHANGED uploadVars
    /\ UNCHANGED pureVars

\* ------------------------------------------------------ page handlers
\* DemoImageHandler.get_partitions
DemoGetPartitions == << <<1, "Demo Partition", 2048, 1000000>> >>

\* DemoImageHandler.is_wiped
DemoIsWiped == FALSE

\* DemoImageHandler.detect_file_type
DemoDetectFileType(content) ==
    [type |-> "text", extension |-> "txt", description |-> "Text File"]

\* the bytes of the literal DemoImageHandler.get_file_content returns
DemoFileBytes ==
    <<84, 104, 105, 115, 32, 105, 115, 32, 97, 32, 100, 101,
       109, 111, 32, 102, 105, 108, 101, 32, 99, 111, 110, 116,
       101, 110, 116, 32, 102, 111, 114, 32, 116, 101, 115, 116,
       105, 110, 103, 32, 112, 117, 114, 112, 111, 115, 101, 115,
       46>>

\* what the ImageHandler of managers.evidence_utils returns to the page
\* handlers is opaque, except for file content, which is bytes or None
RealGetPartitions == "REAL_PARTITIONS"

RealIsWiped == "REAL_WIPED"

RealDetectFileType(content) == "REAL_FILE_INFO"

\* None where bytes are expected (no byte is negative)
NoBytes == <<-1>>

\* file content the real backend may return
RealContents(t) ==
    IF t \in DOMAIN image_handlers /\ image_handlers[t].kind = "real"
    THEN {NoBytes, <<97>>, <<255>>} ELSE {NoBytes}

\* handler.get_file_content(inode, start_offset)[0] as bytes
GetFileBytes(h, inode, start_offset, real_content) ==
    IF h.kind = "demo" THEN DemoFileBytes ELSE real_content

\* inode of the routes /view/<token>/<int:inode> and /preview/<token>/<int:inode>
RouteInodes == {12345}

SessionExpired == "Session expired. Re-upload the image."

FileNotFound == "File not found or could not be read."

\* browse() asking the handler for its partitions before the lookup is tested
BrowseReplyCallFirst(token) ==
    LET handler == DictGet(image_handlers, token)
        req == [token |-> token]
    IN IF handler = NoObject
       THEN Redirect("browse", req, <<"index">>, <<SessionExpired>>, <<"get_partitions">>)
       ELSE Html("browse", req,
                 [partitions |-> IF handler.kind = "demo" THEN DemoGetPartitions
                                 ELSE RealGetPartitions,
                  wiped |-> IF handler.kind = "demo" THEN DemoIsWiped ELSE RealIsWiped],
                 <<"get_partitions", "is_wiped">>)

\* browse(): lines 146-153
BrowseReply(token) ==
    LET handler == DictGet(image_handlers, token)
        req == [token |-> token]
    IN IF handler = NoObject
       THEN Redirect("browse", req, <<"index">>, <<SessionExpired>>, <<>>)
       ELSE Html("browse", req,
                 [partitions |-> IF handler.kind = "demo" THEN DemoGetPartitions
                                 ELSE RealGetPartitions,
                  wiped |-> IF handler.kind = "demo" THEN DemoIsWiped ELSE RealIsWiped],
                 <<"get_partitions", "is_wiped">>)

Browse(token) ==
    /\ resp' = BrowseReply(token)
    /\ UNCHANGED <<image_handlers, next_obj, open_log>>
    /\ UNCHANGED regVars
    /\ UNCHANGED threadVars
    /\ UNCHANGED uploadVars
    /\ UNCHANGED pureVars

\* view_file(): lines 202-227
ViewFileReply(token, inode, start_offset_raw, real_content) ==
    LET start_offset == ParseInt(ArgsGet(start_offset_raw, <<"0">>))
        handler == DictGet(image_handlers, token)
        req == [token |-> token, inode |-> inode, start_offset |-> start_offset_raw,
                real_content |-> real_content]
    IN IF ~start_offset.ok THEN Raised("view_file", req, start_offset.exc)
       ELSE IF handler = NoObject
       THEN Redirect("view_file", req, <<"index">>, <<SessionExpired>>, <<>>)
       ELSE LET content == GetFileBytes(handler, inode, start_offset.val, real_content)
            IN IF content = NoBytes
               THEN Redirect("view_file", req, <<"browse", token>>, <<FileNotFound>>,
                             <<"get_file_content">>)
               ELSE Html("view_file", req,
                         [content |-> ViewContent(content).text_content,
                          is_text |-> ViewContent(content).is_text,
                          file_size |-> Len(content)],
                         <<"get_file_content">>)

ViewFile(token, inode, start_offset_raw, real_content) ==
    /\ resp' = ViewFileReply(token, inode, start_offset_raw, real_content)
    /\ UNCHANGED <<image_handlers, next_obj, open_log>>
    /\ UNCHANGED regVars
    /\ UNCHANGED threadVars
    /\ UNCHANGED uploadVars
    /\ UNCHANGED pureVars

\* view_file() on a request, with the backend's content if it is asked
ViewFileRequest(token, inode, start_offset_raw) ==
    \E c \in RealContents(token) : ViewFile(token, inode, start_offset_raw, c)

\* carve_files(): lines 230-242
CarveFilesReply(token, type_raw) ==
    LET handler == DictGet(image_handlers, token)
        file_type == ArgsGet(type_raw, <<"a", "l", "l">>)
        req == [token |-> token, type |-> type_raw]
    IN IF handler = NoObject
       THEN Redirect("carve_files", req, <<"index">>, <<SessionExpired>>, <<>>)
       ELSE Html("carve_files", req,
                 [carved_files |-> CarveFilesByType(handler, file_type),
                  file_type |-> file_type],
                 <<"carve_files_by_type">>)

CarveFiles(token, type_raw) ==
    /\ resp' = CarveFilesReply(token, type_raw)
    /\ UNCHANGED <<image_handlers, next_obj, open_log>>
    /\ UNCHANGED regVars
    /\ UNCHANGED threadVars
    /\ UNCHANGED uploadVars
    /\ UNCHANGED pureVars

\* preview_file(): lines 257-277
PreviewFileReply(token, inode, start_offset_raw, real_content) ==
    LET start_offset == ParseInt(ArgsGet(start_offset_raw, <<"0">>))
        handler == DictGet(image_handlers, token)
        req == [token |-> token, inode |-> inode, start_offset |-> start_offset_raw,
                real_content |-> real_content]
    IN IF ~start_offset.ok THEN Raised("preview_file", req, start_offset.exc)
       ELSE IF handler = NoObject
       THEN Redirect("preview_file", req, <<"index">>, <<SessionExpired>>, <<>>)
       ELSE LET content == GetFileBytes(handler, inode, start_offset.val, real_content)
            IN IF content = NoBytes
               THEN Redirect("preview_file", req, <<"browse", token>>, <<FileNotFound>>,
                             <<"get_file_content">>)
               ELSE Html("preview_file", req,
                         [content |-> content,
                          file_info |-> IF handler.kind = "demo"
                                        THEN DemoDetectFileType(content)
                                        ELSE RealDetectFileType(content),
                          file_size |-> Len(content)],
                         <<"get_file_content", "detect_file_type">>)

PreviewFile(token, inode, start_offset_raw, real_content) ==
    /\ resp' = PreviewFileReply(token, inode, start_offset_raw, real_content)
    /\ UNCHANGED <<image_handlers, next_obj, open_log>>
    /\ UNCHANGED regVars
    /\ UNCHANGED threadVars
    /\ UNCHANGED uploadVars
    /\ UNCHANGED pureVars

\* preview_file() on a request, with the backend's content if it is asked
PreviewFileRequest(token, inode, start_offset_raw) ==
    \E c \in RealContents(token) : PreviewFile(token, inode, start_offset_raw, c)

\* ------------------------------------------------------------------ Init
InitProgram ==
    /\ evidence_db = EmptyDict
    /\ next_id = 1
    /\ ret = [op |-> "none", arg |-> None, val |-> None]
    /\ issued = <<>>
    /\ pc = [t \in Threads |-> "idle"]
    /\ t_path = [t \in Threads |-> None]
    /\ t_eid = [t \in Threads |-> None]
    /\ t_tmp = [t \in Threads |-> 0]
    /\ image_handlers = EmptyDict
    /\ next_obj = 1
    /\ resp = NoResponse
    /\ open_log = <<>>
    /\ u_pc = [t \in Threads |-> "idle"]
    /\ u_loc = [t \in Threads |-> NoObject]

Init ==
    /\ InitProgram
    /\ pure = [fn |-> "none"]

Next ==
    \/ \E p \in Paths : AddEvidence(p)
    \/ \E e \in QueryIds : ResolveEvidence(e)
    \/ \E e \in QueryIds : CloseEvidence(e)

Spec == Init /\ [][Next]_vars

\* the registry, and the identifier format applied to counter values that
\* MaxId registrations do not reach
InitIds ==
    /\ InitProgram
    /\ pure \in {[fn |-> "format", arg |-> n, done |-> FALSE, out |-> <<>>] :
                    n \in FormatInputs}

NextIds ==
    \/ Next
    \/ ApplyFormat

SpecIds == InitIds /\ [][NextIds]_vars

\* the classification of view_file applied to contents around HexLimit bytes
InitView ==
    /\ InitProgram
    /\ pure \in {[fn |-> "view", arg |-> c, done |-> FALSE, out |-> NoObject] :
                    c \in ViewInputs}

NextView == ApplyViewContent

SpecView == InitView /\ [][NextView]_vars

NextConc ==
    \/ \E t \in Threads, p \in Paths : T_Call(t, p)
    \/ \E t \in Threads : T_Format(t)
    \/ \E t \in Threads : T_Store(t)
    \/ \E t \in Threads : T_Load(t)
    \/ \E t \in Threads : T_Increment(t)
    \/ \E t \in Threads : T_Return(t)

SpecConc == Init /\ [][NextConc]_vars

\* The inputs a request does not read are held fixed: the file name of a
\* request without a file part, the constructor's outcome when the constructor
\* is not reached.
UploadNames(has_file) == IF has_file THEN FileNames ELSE {<<>>}

UploadOutcomes(has_file, f) ==
    IF has_file /\ allowed_file(f) THEN CtorOutcomes ELSE {"ok"}

NextWeb ==
    \/ \E has_file \in BOOLEAN :
          \E f \in UploadNames(has_file) :
             \E c \in UploadOutcomes(has_file, f) : Upload(has_file, f, c)
    \/ \E t \in Tokens, so \in RawOffsets, i \in RawInodes : ApiList(t, so, i)
    \/ \E t \in Tokens, i \in RawInodes, so \in RawOffsets : ApiFileRequest(t, i, so)
    \/ \E t \in Tokens, ty \in FileTypes : ApiCarve(t, ty)
    \/ \E t \in Tokens, q \in Queries : Search(t, q)
    \/ \E t \in Tokens : Browse(t)
    \/ \E t \in Tokens, i \in RouteInodes, so \in RawOffsets : ViewFileRequest(t, i, so)
    \/ \E t \in Tokens, ty \in FileTypes : CarveFiles(t, ty)
    \/ \E t \in Tokens, i \in RouteInodes, so \in RawOffsets : PreviewFileRequest(t, i, so)

SpecWeb == Init /\ [][NextWeb]_vars

\* uploads in concurrent threads, with queries between their steps
NextWebConc ==
    \/ \E t \in Threads, has_file \in BOOLEAN :
          \E f \in UploadNames(has_file) :
             \E c \in UploadOutcomes(has_file, f) : U_Call(t, has_file, f, c)
    \/ \E t \in Threads : U_Construct(t)
    \/ \E t \in Threads : U_Store(t)
    \/ \E t \in Threads : U_Return(t)
    \/ \E t \in Threads : U_Fail(t)
    \/ \E t \in Tokens : Browse(t)
    \/ \E t \in Tokens, ty \in FileTypes : ApiCarve(t, ty)

SpecWebConc == Init /\ [][NextWebConc]_vars

\* the registry and the application in one process: registrations and
\* closes between uploads and queries.  One evidence path, one file name and
\* one valid and one invalid value of every query parameter.
CorePaths == {"/tmp/img1.raw"}

CoreIds == {FormatId(1), FormatId(2), FormatId(MaxId + 1)}

CoreNames == {<<"a", ".raw">>}

CoreOutcomes == {"ok", "ImportError"}

CoreTokens == {<<"a", ".raw">>, <<"b", ".img">>}

CoreOffsets == {NoArg, <<"x">>}

CoreInodes == {NoArg, <<"1", "2", "3", "4", "5">>}

\* a list, read, carve or search request is served
CoreQuery ==
    \/ \E t \in CoreTokens, so \in CoreOffsets, i \in CoreInodes : ApiList(t, so, i)
    \/ \E t \in CoreTokens, i \in CoreInodes, so \in CoreOffsets : ApiFileRequest(t, i, so)
    \/ \E t \in CoreTokens, ty \in FileTypes : ApiCarve(t, ty)
    \/ \E t \in CoreTokens, ty \in FileTypes : CarveFiles(t, ty)
    \/ \E t \in CoreTokens, q \in Queries : Search(t, q)

NextCore ==
    \/ \E p \in CorePaths : AddEvidence(p)
    \/ \E e \in CoreIds : CloseEvidence(e)
    \/ \E f \in CoreNames, c \in CoreOutcomes : Upload(TRUE, f, c)
    \/ CoreQuery

SpecCore == Init /\ [][NextCore]_vars

\* ============================================================= properties

Idle == \A t \in Threads : pc[t] = "idle"

DistinctIds(log) == \A i, j \in 1..Len(log) : i # j => log[i].id # log[j].id

\* C1: in sequential execution add_evidence(p) returns an identifier that no
\* earlier add_evidence call returned, and resolve_evidence of that
\* identifier right after the call returns the record {path: p, open: True}.
C1_RegisterFreshAndResolvable ==
    /\ DistinctIds(issued)
    /\ ret.op = "add" =>
          DictGet(evidence_db, ret.val) = [path |-> ret.arg, open |-> TRUE]

\* a third registration, made after a close and with the path of the first
C1_Witness ==
    /\ ret.op = "add"
    /\ Len(issued) = 3
    /\ issued[1].path = ret.arg
    /\ \E e \in DOMAIN evidence_db : ~evidence_db[e].open

\* C2: when add_evidence calls interleave statement by statement, no two of
\* them return the same identifier, and once they have all returned every
\* returned identifier resolves to a record with the path of its own call.
C2_ConcurrentRegisterUnique ==
    /\ DistinctIds(issued)
    /\ Idle => \A i \in 1..Len(issued) :
                  /\ issued[i].id \in DOMAIN evidence_db
                  /\ evidence_db[issued[i].id].path = issued[i].path

\* C3: close_evidence of a registered id returns True and resolve_evidence
\* then shows open = False; close_evidence of an id that was never registered
\* returns False and changes neither the records nor the counter.
C3_CloseStep(e) ==
    IF e \in DOMAIN evidence_db
    THEN /\ ret'.val = TRUE
         /\ DictGet(evidence_db', e).open = FALSE
    ELSE /\ ret'.val = FALSE
         /\ evidence_db' = evidence_db
         /\ next_id' = next_id

C3_CloseContract == [][\A e \in QueryIds : CloseEvidence(e) => C3_CloseStep(e)]_vars

\* a close of a known open record has run, and a close of an unknown id has
\* run on a registry that is not empty
C3_Witness ==
    /\ ret.op = "close"
    /\ \/ ret.val = TRUE /\ ~evidence_db[ret.arg].open /\ Cardinality(DOMAIN evidence_db) >= 2
       \/ ret.val = FALSE /\ ret.arg \notin DOMAIN evidence_db /\ evidence_db # EmptyDict

\* C10: a record once registered is never removed, its path never changes,
\* and its open flag never goes from False back to True.
C10_RecordStep ==
    \A e \in DOMAIN evidence_db :
        /\ e \in DOMAIN evidence_db'
        /\ evidence_db'[e].path = evidence_db[e].path
        /\ ~evidence_db[e].open => ~evidence_db'[e].open

C10_RecordsOnlyClose == [][C10_RecordStep]_vars

\* a registration with a different path has run while a closed record exists
C10_Witness ==
    /\ ret.op = "add"
    /\ \E e \in DOMAIN evidence_db :
          /\ ~evidence_db[e].open
          /\ evidence_db[e].path # ret.arg

\* C11: close_evidence of a record that is already closed returns True again
\* and leaves the registry (records and counter) as the first close left it.
C11_RecloseStep(e) ==
    /\ ret'.val = TRUE
    /\ evidence_db' = evidence_db
    /\ next_id' = next_id

C11_CloseIdempotent ==
    [][\A e \in QueryIds :
          (/\ e \in DOMAIN evidence_db
           /\ ~evidence_db[e].open
           /\ CloseEvidence(e)) => C11_RecloseStep(e)]_vars

\* a close has just run on a record that an earlier close had closed
C11_Witness ==
    /\ ret.op = "close"
    /\ ret.val = TRUE
    /\ ret.found # NoObject
    /\ ~ret.found.open
    /\ \E e \in DOMAIN evidence_db : evidence_db[e].open

\* C12: in sequential execution the k-th add_evidence call returns "E"
\* followed by k in decimal, zero-padded to three digits and no further
\* (E001, ..., E999, E1000, ...), whatever close_evidence and resolve_evidence
\* calls come in between; so the identifiers increase strictly and match
\* E\d{3,}.
WellFormedId(id, k) ==
    /\ Len(id) >= 4
    /\ id[1] = "E"
    /\ IsDecimal(Tail(id))
    /\ DecimalValue(Tail(id)) = k
    /\ Len(id) > 4 => id[2] # "0"

C12_IdentifierFormat ==
    /\ \A k \in 1..Len(issued) : WellFormedId(issued[k].id, k)
    /\ (pure.fn = "format" /\ pure.done) => WellFormedId(pure.out, pure.arg)

\* the format has been applied to 1000, and three registrations have been
\* made with a close among them
C12_Witness ==
    /\ pure.fn = "format" /\ pure.done /\ pure.arg = 1000
    /\ Len(issued) = 3
    /\ \E e \in DOMAIN evidence_db : ~evidence_db[e].open

\* C13: view_file shows content that is valid UTF-8 as a whole as text
\* (is_text, the decoded string), and any other content as the hexadecimal
\* digits of its first min(1000, length) bytes (not is_text), also when the
\* first 1000 bytes are valid and the broken byte comes after them.
ValidTails ==
    { [bytes |-> <<>>, text |-> <<>>],
      [bytes |-> <<195, 169>>, text |-> <<233>>],
      [bytes |-> <<226, 130, 172>>, text |-> <<8364>>],
      [bytes |-> <<240, 159, 152, 128>>, text |-> <<128512>>] }

InvalidTails == Tails \ {t.bytes : t \in ValidTails}

HexValue(c) == CHOOSE v \in 0..15 : HexDigits[v + 1] = c

IsHexOfPrefix(h, bs) ==
    LET m == Min(1000, Len(bs)) IN
    /\ Len(h) = 2 * m
    /\ \A i \in 1..m : 16 * HexValue(h[2 * i - 1]) + HexValue(h[2 * i]) = bs[i]

C13_TextOrHexOfFirstThousand ==
    (pure.fn = "view" /\ pure.done) =>
        \A n \in RunLengths :
            /\ \A t \in ValidTails :
                  pure.arg = Run(n) \o t.bytes =>
                      pure.out = [text_content |-> Run(n) \o t.text, is_text |-> TRUE]
            /\ \A t \in InvalidTails :
                  pure.arg = Run(n) \o t =>
                      /\ ~pure.out.is_text
                      /\ IsHexOfPrefix(pure.out.text_content, pure.arg)

\* content of 1002 bytes whose only broken byte is the last one
C13_Witness ==
    /\ pure.fn = "view" /\ pure.done
    /\ pure.arg = Run(1001) \o <<255>>
    /\ ~pure.out.is_text

\* C19: in every state that sequential add_evidence, resolve_evidence and
\* close_evidence calls reach, _next_id is the number of records plus one and
\* the identifiers of the records are E001 .. E<_next_id - 1> without a gap.
C19_CounterAndIdsDense ==
    /\ next_id = Cardinality(DOMAIN evidence_db) + 1
    /\ \A e \in DOMAIN evidence_db : \E k \in 1..(next_id - 1) : WellFormedId(e, k)
    /\ \A k \in 1..(next_id - 1) : \E e \in DOMAIN evidence_db : WellFormedId(e, k)

\* several records exist, one of them closed, and a close or a resolve has
\* just run
C19_Witness ==
    /\ next_id >= 3
    /\ ret.op \in {"close", "resolve"}
    /\ \E e \in DOMAIN evidence_db : ~evidence_db[e].open

\* ------------------------------------------------- properties of app.py
QueryRoutes == {"api_list", "api_file", "api_carve", "search"}

IsInvalidToken(r) == r.kind = "json" /\ r.code = 400 /\ r.body = [error |-> "invalid token"]

IsNotFound(r) == r.kind = "json" /\ r.code = 404 /\ r.body = [error |-> "not found"]

\* C4: a list, read, carve or search request whose token is not in
\* image_handlers is answered with the invalid-token error, whatever its other
\* parameters are (an absent or malformed inode or start_offset included).
C4_UnknownTokenIsInvalidToken ==
    (resp.route \in QueryRoutes /\ resp.req.token \notin DOMAIN image_handlers)
        => IsInvalidToken(resp)

\* C5: a token stored by an upload keeps resolving to the same handler object
\* through every later request: no request removes it or stores another
\* handler under it.
C5_TokenKeepsHandler ==
    [][\A t \in DOMAIN image_handlers :
          /\ t \in DOMAIN image_handlers'
          /\ image_handlers'[t] = image_handlers[t]]_vars

\* C6: every upload that stores a handler returns a token no earlier upload
\* returned, so image_handlers holds as many tokens as there were such uploads.
C6_FreshTokenPerOpen ==
    /\ \A i, j \in 1..Len(open_log) : i # j => open_log[i].token # open_log[j].token
    /\ Cardinality(DOMAIN image_handlers) = Len(open_log)

\* C7: an upload whose ImageHandler constructor raises an exception other
\* than ImportError stores nothing: image_handlers is what it was before the
\* request and the reply redirects to the index page without a token.
C7_FailedStep(f) ==
    /\ image_handlers' = image_handlers
    /\ open_log' = open_log
    /\ resp'.kind = "redirect"
    /\ resp'.body = <<"index">>

C7_FailedOpenStoresNothing ==
    [][resp'.route = "upload" =>
          \A f \in FileNames :
             (allowed_file(f) /\ Upload(TRUE, f, "Exception")) => C7_FailedStep(f)]_vars

\* a failed upload of a file name whose token is held by an earlier session
C7_Witness ==
    /\ resp.route = "upload"
    /\ Flashed(resp.flashes, "Error processing image")
    /\ secure_filename(resp.req.filename) \in DOMAIN image_handlers
    /\ Cardinality(DOMAIN image_handlers) = 2

\* C8: an upload whose constructor raises ImportError stores the demo handler
\* under a token and flashes the demo-mode warning in its own reply; so a
\* stored handler is the demo handler exactly when the upload that stored it
\* flashed the warning.
C8_ImportErrorStep(f) ==
    LET token == secure_filename(f) IN
    /\ resp'.body = <<"browse", token>>
    /\ token \in DOMAIN image_handlers'
    /\ image_handlers'[token].kind = "demo"
    /\ Flashed(resp'.flashes, DemoWarning)

C8_WarnedIffDemo ==
    /\ \A i \in 1..Len(open_log) : open_log[i].warned <=> open_log[i].kind = "demo"
    /\ \A t \in DOMAIN image_handlers :
          \E i \in 1..Len(open_log) :
              /\ open_log[i].token = t
              /\ open_log[i].obj = image_handlers[t].obj
              /\ open_log[i].warned <=> image_handlers[t].kind = "demo"
    /\ (resp.route = "upload" /\ Flashed(resp.flashes, DemoWarning)) =>
          /\ resp.body[1] = "browse"
          /\ DictGet(image_handlers, resp.body[2]).kind = "demo"

C8_DemoFallbackWarns ==
    /\ []C8_WarnedIffDemo
    /\ [][resp'.route = "upload" =>
            \A f \in FileNames :
               (allowed_file(f) /\ Upload(TRUE, f, "ImportError"))
                  => C8_ImportErrorStep(f)]_vars

\* a demo-mode upload has just been answered while a real handler is stored
C8_Witness ==
    /\ resp.route = "upload"
    /\ Flashed(resp.flashes, DemoWarning)
    /\ \E t \in DOMAIN image_handlers : image_handlers[t].kind = "real"
    /\ \E t \in DOMAIN image_handlers : image_handlers[t].kind = "demo"

\* C9: for a token in image_handlers, api_file with start_offset 0 and an
\* inode that is not among the handler's directory entries answers not-found.
\* The entries of the demo handler are those of get_directory_contents; an
\* inode outside the entries of the real handler is one it cannot read.
InodeListed(h, inode, readable) ==
    IF h.kind = "demo"
    THEN \E i \in 1..Len(DemoGetDirectoryContents(0, NoArg)) :
            DemoGetDirectoryContents(0, NoArg)[i].inode_number = inode
    ELSE readable

C9_UnlistedInodeNotFound ==
    (/\ resp.route = "api_file"
     /\ resp.req.token \in DOMAIN image_handlers
     /\ ParseInt(resp.req.inode).ok
     /\ ParseInt(ArgsGet(resp.req.start_offset, <<"0">>)).ok
     /\ ParseInt(ArgsGet(resp.req.start_offset, <<"0">>)).val = 0
     /\ ~InodeListed(image_handlers[resp.req.token], ParseInt(resp.req.inode).val,
                     resp.req.readable))
        => IsNotFound(resp)

UploadsIdle == \A t \in Threads : u_pc[t] = "idle"

\* C14: when uploads run concurrently with each other and with queries, no
\* session is lost: once all of them have returned, every token an upload
\* returned resolves to the handler object that this upload constructed.
C14_NoSessionLost ==
    UploadsIdle =>
        \A i \in 1..Len(open_log) :
           /\ open_log[i].token \in DOMAIN image_handlers
           /\ image_handlers[open_log[i].token].obj = open_log[i].obj

\* tok is the base name of path: tok holds no separator, and path is tok or
\* ends with a separator followed by tok
IsBaseNameOf(tok, path) ==
    /\ \A i \in 1..Len(tok) : tok[i] # "/"
    /\ Len(tok) <= Len(path)
    /\ SubSeq(path, Len(path) - Len(tok) + 1, Len(path)) = tok
    /\ Len(tok) < Len(path) => path[Len(path) - Len(tok)] = "/"

\* an upload that stored a handler has just replied
UploadStored == resp.route = "upload" /\ resp.body[1] = "browse"

\* C15: the token an upload returns is the base name of the path the file was
\* saved under: every token of image_handlers is the base name of its
\* handler's image path, the token in the reply is bound to the handler of the
\* path just saved, /tmp/img1.raw gives img1.raw, and uploads of the same
\* base name get the same token.
C15_TokenIsBaseName ==
    /\ \A t \in DOMAIN image_handlers : IsBaseNameOf(t, image_handlers[t].image_path)
    /\ UploadStored =>
          /\ resp.body[2] \in DOMAIN image_handlers
          /\ image_handlers[resp.body[2]].image_path
                = PathJoin(UPLOAD_FOLDER, secure_filename(resp.req.filename))
          /\ open_log[Len(open_log)].token = resp.body[2]
    /\ Basename(<<"/", "tmp", "/", "img1.raw">>) = <<"img1.raw">>

\* two uploads of the same base name have returned the same token
C15_Witness ==
    /\ UploadStored
    /\ \E i, j \in 1..Len(open_log) :
          /\ i < j
          /\ open_log[i].token = open_log[j].token
          /\ open_log[i].obj # open_log[j].obj
          /\ IsBaseNameOf(open_log[j].token, image_handlers[open_log[j].token].image_path)

\* C16: a list, read, carve or search request, whether it is answered with a
\* result or with an error, leaves image_handlers (the tokens and the handler
\* each is bound to) and the evidence registry (records and counter) as they
\* were.
C16_Frame ==
    /\ image_handlers' = image_handlers
    /\ evidence_db' = evidence_db
    /\ next_id' = next_id

\* stated as its contrapositive: a step that changes one of them is not a
\* query
C16_QueriesChangeNothing == [][~C16_Frame => ~CoreQuery]_vars

\* a query on an open session has been answered with an error while a record
\* exists
C16_Witness ==
    /\ resp.route \in QueryRoutes \cup {"carve_files"}
    /\ resp.code # 200
    /\ resp.req.token \in DOMAIN image_handlers
    /\ evidence_db # EmptyDict

\* the replies of the queries on token t, as image_handlers determines them
RepliesOn(t) ==
    [list |-> [q \in CoreOffsets \X CoreInodes |-> ApiListReply(t, q[1], q[2])],
     file |-> [q \in CoreInodes \X CoreOffsets |-> ApiFileReply(t, q[1], q[2], TRUE)],
     carve |-> [ty \in FileTypes |-> ApiCarveReply(t, ty)],
     search |-> [q \in Queries |-> SearchReply(t, q)],
     browse |-> BrowseReply(t)]

\* C18: close_evidence does not touch the sessions: over a close, every token
\* of image_handlers stays bound to the same handler and every query on it
\* gets the reply it would have got before the close, also when the close
\* sets open to False.
C18_CloseStep ==
    /\ image_handlers' = image_handlers
    /\ \A t \in DOMAIN image_handlers : RepliesOn(t)' = RepliesOn(t)

C18_CloseKeepsSessions ==
    [][ret'.op = "close" =>
          \A e \in CoreIds : CloseEvidence(e) => C18_CloseStep]_vars

\* a record was closed while a session was open, and a query on that session
\* was answered with a result after the close
C18_Witness ==
    /\ resp.route \in QueryRoutes
    /\ resp.code = 200
    /\ resp.req.token \in DOMAIN image_handlers
    /\ ret.op = "close"
    /\ ret.val = TRUE
    /\ ~evidence_db[ret.arg].open

\* the routes that take a token
TokenRoutes ==
    {"browse", "api_list", "api_file", "view_file", "carve_files", "api_carve",
     "preview_file", "search"}

\* the handler methods the routes call
CapabilityCalls ==
    {"get_partitions", "is_wiped", "get_directory_contents", "get_file_content",
     "detect_file_type", "carve_files_by_type", "search_files"}

\* C17: in every handler that takes a token the lookup in image_handlers
\* comes before any call of a handler method: a request whose token is not in
\* image_handlers is answered without any such call, and the calls made for
\* the other requests are handler methods of the handler the token is bound to.
C17_LookupBeforeCalls ==
    resp.route \in TokenRoutes =>
       /\ resp.req.token \notin DOMAIN image_handlers => resp.calls = <<>>
       /\ \A i \in 1..Len(resp.calls) : resp.calls[i] \in CapabilityCalls

\* a request with a token that is not in image_handlers was answered while
\* another token is, and no handler method was called for it
C17_Witness ==
    /\ resp.route \in {"browse", "view_file", "preview_file", "carve_files"}
    /\ resp.req.token \notin DOMAIN image_handlers
    /\ resp.req.token # NoArg
    /\ image_handlers # EmptyDict
    /\ resp.calls = <<>>

====
